---- MODULE Spec2Model ----
(***************************************************************************)
(* Submission pipeline of Backend-Cloudemy: the record store shared by the *)
(* three backend handlers                                                  *)
(*   create_submission    (Intake,     routers/submissions.py)            *)
(*   post_result_callback (Reconciler, routers/internal.py)               *)
(*   finalize_submission  (Finalizer,  routers/submissions.py)            *)
(* Every handler is an asyncio coroutine: it runs atomically between two   *)
(* awaits, and each awaited store operation (insert_one, find_one,         *)
(* update_one, HSET, LPUSH) is atomic in the store.  One action of the     *)
(* model is one such segment: the store operation together with the code   *)
(* that follows it up to the next await.                                   *)
(* Strings whose letters matter (the status values) are sequences of       *)
(* one-character strings, so that str.upper() is computed, not assumed.    *)
(***************************************************************************)
EXTENDS Integers, Sequences, FiniteSets, TLC

\* ---------------------------------------------------------------- bounds
MaxSubs == 2          \* submissions Intake may create
NumFinalizeCalls == 2 \* finalize requests that may be in flight together
NumResultCalls == 2   \* result callbacks that may be in flight together
MaxClock == 1         \* ticks of the wall clock
NumSchedulers == 2    \* Scheduler instances popping from the one queue
MaxPosts == 3         \* requests of one Worker run the Reconciler handles
MaxForeign == 2       \* messages in the pipeline up to which other producers push

Ids == 1..MaxSubs
FinCalls == 1..NumFinalizeCalls
RecCalls == 1..NumResultCalls
Posts == 1..MaxPosts
Scheds == 1..NumSchedulers

None == "None"        \* Python's None / an absent header or field

\* ---------------------------------------------------------------- strings
LowerLetters == <<"a","b","c","d","e","f","g","h","i","j","k","l","m",
                  "n","o","p","q","r","s","t","u","v","w","x","y","z">>
UpperLetters == <<"A","B","C","D","E","F","G","H","I","J","K","L","M",
                  "N","O","P","Q","R","S","T","U","V","W","X","Y","Z">>

\* The capital of every lower-case letter, and the reverse.
ToUpper ==
    [c \in {LowerLetters[i] : i \in 1..Len(LowerLetters)} |->
        UpperLetters[CHOOSE i \in 1..Len(LowerLetters) : LowerLetters[i] = c]]

ToLower ==
    [c \in {UpperLetters[i] : i \in 1..Len(UpperLetters)} |->
        LowerLetters[CHOOSE i \in 1..Len(UpperLetters) : UpperLetters[i] = c]]

\* str.upper() on one character: a lower-case letter goes to its capital,
\* every other character is kept.
UpperChar(c) == IF c \in DOMAIN ToUpper THEN ToUpper[c] ELSE c

\* str.upper()
Upper(s) == [i \in 1..Len(s) |-> UpperChar(s[i])]

QUEUED    == <<"Q","U","E","U","E","D">>
COMPLETED == <<"C","O","M","P","L","E","T","E","D">>
FAILED    == <<"F","A","I","L","E","D">>
TIMEOUT   == <<"T","I","M","E","O","U","T">>
FINALIZED == <<"F","I","N","A","L","I","Z","E","D">>
SUCCESS   == <<"S","U","C","C","E","S","S">>
SUCCESSED == <<"S","U","C","C","E","S","S","E","D">>

\* The inverse of UpperChar on capitals.
LowerChar(c) == IF c \in DOMAIN ToLower THEN ToLower[c] ELSE c

\* Every spelling of the upper-case word w in mixed letter case.
CaseVariants(w) ==
    {[i \in 1..Len(w) |-> IF i \in low THEN LowerChar(w[i]) ELSE w[i]] :
        low \in SUBSET (1..Len(w))}

\* The spellings of w with at most one letter in the other case than the rest.
NearCaseVariants(w) ==
    {v \in CaseVariants(w) :
        \E k \in 0..Len(w) :
            \/ \A i \in 1..Len(w) : (v[i] = w[i]) <=> (i # k)
            \/ \A i \in 1..Len(w) : (v[i] = w[i]) <=> (i = k)}

\* STATUSES, submissions.py
STATUSES == {QUEUED, FAILED, COMPLETED, TIMEOUT, FINALIZED}

\* RESULT_TOKEN, internal.py (default of INTERNAL_RESULT_TOKEN)
RESULT_TOKEN == "secret"

\* ---------------------------------------------------------------- inputs
\* SubmissionCreate bodies that pass validation (language non-empty after
\* stripping, code any string).
CreateInputs == [language : {"python"}, code : {"print(1)"}]

\* FinalizeIn.note
Notes == {None, "final"}

\* X-Result-Token header values a caller may send (None: header missing)
Tokens == {None, "secret", "wrong"}

\* MetricsIn
MetricsOf(ms) == [timeMs |-> ms, memoryMB |-> 0]

\* ResultIn bodies Workers (or anyone holding the token) may send.
Report(st, sc, tags, fb, ms) ==
    [status |-> st, score |-> sc, fail_tags |-> tags, feedback |-> fb,
     metrics |-> MetricsOf(ms)]

ResultInputs ==
    { Report(<<"S","u","c","c","e","s","s">>, 95, <<>>, <<>>, 7),
      Report(SUCCESSED, 80, <<>>,
             <<[case |-> "style", message |-> "ok"]>>, 7),
      Report(<<"f","a","i","l","e","d">>, 0, <<"llm_error">>,
             <<[case |-> "llm_error", message |-> "boom"]>>, 3),
      Report(TIMEOUT, 0, <<"timeout">>,
             <<[case |-> "timeout", message |-> "110s"]>>, 110),
      Report(QUEUED, 0, <<>>, <<>>, 0),
      Report(<<"f","i","n","a","l","i","z","e","d">>, 0, <<>>, <<>>, 0),
      Report(<<>>, 0, <<>>, <<>>, 0) }

\* ---------------------------------------------------------------- state
VARIABLES
    db,        \* Mongo collection submissions: id -> document, or NoDoc
    nextId,    \* the next ObjectId create_submission will allocate
    now,       \* datetime.now(timezone.utc)
    store,     \* Redis hashes submission:<id>: id -> mapping, or NoDoc
    queue,     \* Redis list queue:submissions, head first
    intake,    \* create_submission coroutines, one per allocated id
    fin,       \* finalize_submission coroutines
    rec,       \* post_result_callback coroutines
    sched,     \* Scheduler instances: each one's position in its main loop
    jobs,      \* calls of create_namespaced_job so far, in order
    worker,    \* the Worker run: position of main and of timeout_handler
    sent       \* requests the Worker run has POSTed so far, in order

vars == <<db, nextId, now, store, queue, intake, fin, rec, sched, jobs, worker, sent>>

NoDoc == [absent |-> TRUE]

IdleCall == [pc |-> "idle"]

\* A Scheduler instance about to call pop_queue.
Popping == [pc |-> "pop"]

\* A JSON number, as the evaluator's answer or the Worker's literals hold it.
Number(n) == [type |-> "number", value |-> n]

\* No outcome yet.
NoResult == [status |-> <<>>, score |-> Number(0), fail_tags |-> <<>>]

\* The Worker run: pc, site, result, attempt, phase, req and resp are main's
\* position (the statement, the send_result_to_backend call it is in, the
\* outcome that call delivers, its loop index, whether it is about to post,
\* waits for the answer or sleeps, which request of sent is in flight and what
\* requests.post did last), e is the exception step 1 caught, exc says an
\* exception is leaving main; hpc,
\* hattempt, hreq and hresp are timeout_handler's position in its own
\* send_result_to_backend call ("off": the handler is not running).
\* NoRun: the pod has not started.
NoRun ==
    [pc |-> "none", submission_id |-> 0, site |-> "none", result |-> NoResult,
     attempt |-> 0, phase |-> "post", req |-> 0, resp |-> "none", e |-> "none",
     exc |-> FALSE,
     timeout_occurred |-> FALSE, alarm |-> "off", hpc |-> "off",
     hattempt |-> 0, hreq |-> 0, hresp |-> "none"]

\* A run that has read SUBMISSION_ID, armed its alarm and is about to load
\* the payload.
NewRun(id) ==
    [NoRun EXCEPT !.pc = "load", !.submission_id = id, !.alarm = "armed"]

Init ==
    /\ db = [i \in Ids |-> NoDoc]
    /\ nextId = 1
    /\ now = 0
    /\ store = [i \in Ids |-> NoDoc]
    /\ queue = <<>>
    /\ intake = [i \in Ids |-> IdleCall]
    /\ fin = [c \in FinCalls |-> IdleCall]
    /\ rec = [c \in RecCalls \cup Posts |-> IdleCall]
    /\ sched = [s \in Scheds |-> Popping]
    /\ jobs = <<>>
    /\ worker = NoRun
    /\ sent = <<>>

\* The wall clock advances.
Tick ==
    /\ now < MaxClock
    /\ now' = now + 1
    /\ UNCHANGED <<sched, jobs, worker, sent, db, nextId, store, queue, intake, fin, rec>>

\* ---------------------------------------------------------------- store
\* find_one({"_id": id}): the document, or NoDoc
find_one(id) == IF id \in Ids THEN db[id] ELSE NoDoc

\* ---------------------------------------------------------------- Intake
\* The document create_submission builds (submissions.py 172-185).
NewDoc(payload, t) ==
    [user_id |-> "u1", language |-> payload.language, code |-> payload.code,
     status |-> QUEUED, score |-> 0, fail_tags |-> <<>>, feedback |-> <<>>,
     metrics |-> MetricsOf(0), finalized |-> FALSE, attempt |-> 1,
     created_at |-> t]

\* create_submission up to and including insert_one.
create_submission(payload) ==
    /\ nextId \in Ids
    /\ db' = [db EXCEPT ![nextId] = NewDoc(payload, now)]
    /\ nextId' = nextId + 1
    /\ intake' = [intake EXCEPT ![nextId] = [pc |-> "save", payload |-> payload]]
    /\ UNCHANGED <<sched, jobs, worker, sent, now, store, queue, fin, rec>>

\* mapping of _save_submission_to_redis: the fields of the hash.
mapping(id, payload) ==
    [submission_id |-> id, user_id |-> "u1",
     language |-> payload.language, code |-> payload.code]

\* Mutant of hset: the command is answered but the hash is not written.
hset_lost(hashes, id, fields) == hashes

\* Redis HSET key mapping
hset(hashes, id, fields) == [hashes EXCEPT ![id] = fields]

\* Mutant of AfterSave: the exception of the payload write is swallowed.
AfterSaveIgnore(call, ok) == [call EXCEPT !.pc = "enqueue"]

\* create_submission after _save_submission_to_redis returned (ok) or raised:
\* the exception is re-raised and leaves the handler.
AfterSave(call, ok) ==
    IF ok THEN [call EXCEPT !.pc = "enqueue"] ELSE [pc |-> "error"]

\* _save_submission_to_redis: HSET succeeds, or raises and the handler ends
\* with a server error.
_save_submission_to_redis(id, ok) ==
    /\ intake[id].pc = "save"
    /\ store' = IF ok THEN hset(store, id, mapping(id, intake[id].payload))
                ELSE store
    /\ intake' = [intake EXCEPT ![id] = AfterSave(intake[id], ok)]
    /\ UNCHANGED <<sched, jobs, worker, sent, db, nextId, now, queue, fin, rec>>

\* json.dumps of a dict: a text that parses back to the dict.
json_dumps(message) == [json |-> "object", data |-> message]

\* Redis LPUSH: the element goes to the head of the list.
lpush(list, raw) == <<raw>> \o list

\* _enqueue_to_queue: LPUSH puts the message at the head of the list, or
\* raises and the handler ends with a server error.
_enqueue_to_queue(id, ok) ==
    /\ intake[id].pc = "enqueue"
    /\ IF ok
       THEN /\ queue' = lpush(queue, json_dumps(
                         [submission_id |-> id,
                          language |-> intake[id].payload.language]))
            /\ intake' = [intake EXCEPT ![id] = [pc |-> "done"]]
       ELSE /\ queue' = queue
            /\ intake' = [intake EXCEPT ![id] = [pc |-> "error"]]
    /\ UNCHANGED <<sched, jobs, worker, sent, db, nextId, now, store, fin, rec>>

\* Characters str.strip() removes.
Whitespace == {" ", "\t", "\n"}

\* str.strip(): leading and trailing whitespace removed.
RECURSIVE StripLeft(_)
StripLeft(str) ==
    IF str # <<>> /\ Head(str) \in Whitespace THEN StripLeft(Tail(str)) ELSE str

RECURSIVE StripRight(_)
StripRight(str) ==
    IF str # <<>> /\ str[Len(str)] \in Whitespace
    THEN StripRight(SubSeq(str, 1, Len(str) - 1))
    ELSE str

Strip(str) == StripRight(StripLeft(str))

\* The default of SubmissionCreate.language.
PYTHON == <<"p","y","t","h","o","n">>

\* Request bodies of POST /submissions: language absent, empty, blank, padded
\* or plain; code absent, empty or not. Strings are sequences of characters.
CreateBodies ==
    LET languages == {<<>>, <<" ">>, <<" ","c"," ">>, PYTHON}
        codes == {<<>>, <<"x","=","1">>}
    IN  [language : languages, code : codes]
        \cup [code : codes]
        \cup [language : languages]

\* Mutant of ValidBody: code needs a character, as language does.
ValidNonEmpty(body) ==
    /\ "code" \in DOMAIN body /\ Len(body.code) >= 1
    /\ "language" \in DOMAIN body => Len(Strip(body.language)) >= 1

\* Does the body validate as SubmissionCreate? code is required and is any
\* str; language, when given, has at least one character after stripping.
ValidBody(body) ==
    /\ "code" \in DOMAIN body
    /\ "language" \in DOMAIN body => Len(Strip(body.language)) >= 1

\* The validated model: language stripped or defaulted, code as sent.
SubmissionCreate(body) ==
    [language |-> IF "language" \in DOMAIN body
                  THEN Strip(body.language) ELSE PYTHON,
     code |-> body.code]

\* FastAPI's answer to a body that does not validate.
Unprocessable == [pc |-> "rejected", code |-> 422]

\* POST /submissions: the body is validated before create_submission runs; a
\* body that does not validate is answered 422 and the handler never runs.
post_submission(body) ==
    IF ValidBody(body)
    THEN create_submission(SubmissionCreate(body))
    ELSE /\ nextId \in Ids
         /\ intake' = [intake EXCEPT ![nextId] = Unprocessable]
         /\ UNCHANGED <<sched, jobs, worker, sent, db, nextId, now, store, queue, fin, rec>>

\* ---------------------------------------------------------------- Scheduler
\* json.loads and the submission_id check of pop_queue: the dict, or NoDoc
\* (pop_queue returns None) for a text that does not parse or lacks the id.
ParseMessage(raw) ==
    IF raw.json # "object" THEN NoDoc
    ELSE IF "submission_id" \notin DOMAIN raw.data THEN NoDoc
    ELSE raw.data

\* The elements of a JSON array.
Elements(data) == {data[k] : k \in 1..Len(data)}

\* Does handling the text raise out of main's loop? json.loads accepts any
\* JSON value; '"submission_id" not in data' raises TypeError on a number,
\* a boolean or null, and msg["submission_id"] raises TypeError on a list
\* that has the element "submission_id". Neither is in a try block.
RaisesTypeError(raw) ==
    \/ raw.json \in {"number", "null"}
    \/ raw.json = "array" /\ "submission_id" \in Elements(raw.data)

\* A Scheduler process that has ended.
Exited == [pc |-> "exited"]

\* Texts other producers may put on the list: no JSON, JSON values that are
\* no object, an object without submission_id, and a copy of a message
\* Intake wrote.
ForeignMessages ==
    { [json |-> "invalid"],
      [json |-> "number", data |-> 5],
      [json |-> "null"],
      [json |-> "array", data |-> <<"submission_id">>],
      [json |-> "array", data |-> <<"x">>],
      json_dumps([language |-> PYTHON]) }
    \cup {json_dumps([submission_id |-> id, language |-> PYTHON]) : id \in Ids}

\* Messages on the list, held by a Scheduler instance, or handed to the
\* cluster.
InPipeline ==
    Len(queue) + Cardinality({s \in Scheds : sched[s].pc = "create"}) + Len(jobs)

\* Another client of Redis pushes a text, or the queue delivers a message
\* once more.
foreign_push(raw) ==
    /\ InPipeline < MaxForeign
    /\ queue' = lpush(queue, raw)
    /\ UNCHANGED <<db, nextId, now, store, intake, fin, rec, sched, jobs, worker, sent>>

\* Mutant of blpop_rest: the element is read but stays in the list.
lindex_rest(list) == list

\* Redis BLPOP on a non-empty list takes its head: the list that remains.
blpop_rest(list) == Tail(list)

\* pop_queue and main up to create_runner_job: BLPOP returned an element. (On
\* an empty list BLPOP times out, pop_queue returns None and main loops.)
pop_queue(s) ==
    /\ sched[s].pc = "pop"
    /\ queue # <<>>
    /\ LET msg == ParseMessage(Head(queue)) IN
       sched' = [sched EXCEPT ![s] =
                  IF RaisesTypeError(Head(queue)) THEN Exited
                  ELSE IF msg = NoDoc THEN Popping
                  ELSE [pc |-> "create", submission_id |-> msg.submission_id]]
    /\ queue' = blpop_rest(queue)
    /\ UNCHANGED <<db, nextId, now, store, intake, fin, rec, jobs, worker, sent>>

\* Mutant of JobName: every call makes a new name.
JobNameFresh(id) == <<"runner", id, Len(jobs)>>

\* job_name = f"runner-{safe_id}"
JobName(id) == <<"runner", id>>

\* The names of the Jobs the cluster holds.
JobNames == {jobs[k].name : k \in {j \in 1..Len(jobs) : jobs[j].created}}

\* Mutant of AfterCreate: the exception of create_runner_job leaves main.
AfterCreateRaise(ok) == IF ok THEN Popping ELSE Exited

\* main after create_runner_job returned (ok) or raised: the except clause
\* logs, and both ways lead back to the top of the loop.
AfterCreate(ok) == Popping

\* create_runner_job and main's handling of its exception: the cluster
\* creates the Job, or rejects the call (always when a Job of that name
\* exists); main logs a rejection and goes on to pop.
create_runner_job(s, ok) ==
    /\ sched[s].pc = "create"
    /\ ok => JobName(sched[s].submission_id) \notin JobNames
    /\ jobs' = Append(jobs, [submission_id |-> sched[s].submission_id,
                             name |-> JobName(sched[s].submission_id),
                             created |-> ok])
    /\ sched' = [sched EXCEPT ![s] = AfterCreate(ok)]
    /\ UNCHANGED <<db, nextId, now, store, queue, intake, fin, rec, worker, sent>>

\* ---------------------------------------------------------------- Mongo
\* Mutant of SetFields: the update document replaces the stored one.
ReplaceDoc(doc, upd) == upd

\* Mutant of SetFields: feedback entries are appended ($push) instead of set.
PushFeedback(doc, upd) ==
    [k \in DOMAIN doc \cup DOMAIN upd |->
        IF k \notin DOMAIN upd THEN doc[k]
        ELSE IF k = "feedback" THEN doc[k] \o upd[k]
        ELSE upd[k]]

\* {"$set": upd} applied to a document: the named fields are overwritten or
\* added, every other field is kept.
SetFields(doc, upd) ==
    [k \in DOMAIN doc \cup DOMAIN upd |->
        IF k \in DOMAIN upd THEN upd[k] ELSE doc[k]]

\* Mutant of MatchesNotFinalized: the filter names the _id alone.
MatchesId(id) == db[id] # NoDoc

\* Mutant of MatchesNotFinalized: the filter matches no document.
MatchesNone(id) == FALSE

\* The filter {"_id": id, "finalized": {"$ne": True}} of both conditional
\* writes: does it match document id?
MatchesNotFinalized(id) ==
    /\ db[id] # NoDoc
    /\ db[id].finalized # TRUE

\* Mutant of FinalizedOf: the query asks for finalized == False.
NotFinalizedOf(uid) ==
    LET hits == {i \in Ids : /\ db[i] # NoDoc
                             /\ db[i].user_id = uid
                             /\ db[i].finalized = FALSE}
    IN  IF hits = {} THEN {NoDoc} ELSE {[_id |-> i] : i \in hits}

\* The documents find_one({"user_id": uid, "finalized": True}) may return
\* (their _id; Mongo promises no order among several matches), NoDoc if none.
FinalizedOf(uid) ==
    LET hits == {i \in Ids : /\ db[i] # NoDoc
                             /\ db[i].user_id = uid
                             /\ db[i].finalized = TRUE}
    IN  IF hits = {} THEN {NoDoc} ELSE {[_id |-> i] : i \in hits}

\* ---------------------------------------------------------------- Finalizer
\* FinalizeOut(submission_id=...): status and finalized take their defaults.
FinalizeOut(id) ==
    [code |-> 200, submission_id |-> id, status |-> FINALIZED, finalized |-> TRUE]

HTTPException(code, detail) == [code |-> code, detail |-> detail]

Done(id, result) == [pc |-> "done", submission_id |-> id, result |-> result]

\* Mutant of OtherFinalized: the comparison of ids is missing.
AnyFinalized(existing, id) == existing # NoDoc

\* "if existing and existing.get('_id') != submission_id"
OtherFinalized(existing, id) == existing # NoDoc /\ existing._id # id

\* finalize_submission, steps 1-2: _get_doc_or_404 and the idempotent return.
finalize_submission(c, id, note) ==
    /\ fin[c].pc \in {"idle", "done"}
    /\ LET doc == find_one(id) IN
       fin' = [fin EXCEPT ![c] =
                IF doc = NoDoc
                THEN Done(id, HTTPException(404, "submission not found"))
                ELSE IF doc.finalized
                THEN Done(id, FinalizeOut(id))
                ELSE [pc |-> "query", submission_id |-> id, note |-> note,
                      user_id |-> doc.user_id]]
    /\ UNCHANGED <<sched, jobs, worker, sent, db, nextId, now, store, queue, intake, rec>>

\* Step 3: the query for a finalized submission of the same user.
finalize_query(c) ==
    /\ fin[c].pc = "query"
    /\ \E existing \in FinalizedOf(fin[c].user_id) :
         fin' = [fin EXCEPT ![c] =
                  IF OtherFinalized(existing, fin[c].submission_id)
                  THEN Done(fin[c].submission_id,
                            HTTPException(409, "finalized_submission_exists_for_user"))
                  ELSE [fin[c] EXCEPT !.pc = "update"]]
    /\ UNCHANGED <<sched, jobs, worker, sent, db, nextId, now, store, queue, intake, rec>>

\* Mutant of FinalizeSet: the flag is not written.
FinalizeSetStatus(note) == [status |-> FINALIZED, finalize_note |-> note]

\* The $set document of finalize_submission.
FinalizeSet(note) ==
    [status |-> FINALIZED, finalized |-> TRUE, finalize_note |-> note]

\* Step 4: the conditional write, and the return when it matched.
finalize_update(c) ==
    /\ fin[c].pc = "update"
    /\ LET id == fin[c].submission_id IN
       IF MatchesNotFinalized(id)
       THEN /\ db' = [db EXCEPT ![id] = SetFields(db[id], FinalizeSet(fin[c].note))]
            /\ fin' = [fin EXCEPT ![c] = Done(id, FinalizeOut(id))]
       ELSE /\ db' = db
            /\ fin' = [fin EXCEPT ![c].pc = "reread"]
    /\ UNCHANGED <<sched, jobs, worker, sent, nextId, now, store, queue, intake, rec>>

\* matched_count == 0: read again and check that the submission is finalized.
finalize_reread(c) ==
    /\ fin[c].pc = "reread"
    /\ LET id == fin[c].submission_id
           doc == find_one(id) IN
       fin' = [fin EXCEPT ![c] =
                IF doc = NoDoc
                THEN Done(id, HTTPException(404, "submission not found"))
                ELSE IF ~doc.finalized
                THEN Done(id, HTTPException(409, "finalize_conflict"))
                ELSE Done(id, FinalizeOut(id))]
    /\ UNCHANGED <<sched, jobs, worker, sent, db, nextId, now, store, queue, intake, rec>>

\* ---------------------------------------------------------------- Reconciler
OkOut(id, st) == [code |-> 200, ok |-> TRUE, submission_id |-> id, status |-> st]

\* Mutant of InvalidToken: only a missing header is refused.
MissingToken(tok) == tok = None \/ tok = ""

\* Mutant of GetStatus: the default is returned.
GetDefault(doc, default) == default

\* doc.get("status", default)
GetStatus(doc, default) == IF "status" \in DOMAIN doc THEN doc.status ELSE default

\* "if not x_result_token or x_result_token != RESULT_TOKEN"
InvalidToken(tok) == tok = None \/ tok = "" \/ tok # RESULT_TOKEN

\* Mutant of AlreadyFinalized: the short-circuit is missing.
NeverFinalized(doc) == FALSE

\* "if doc.get('finalized') is True or doc.get('status') == 'FINALIZED'"
AlreadyFinalized(doc) == doc.finalized = TRUE \/ doc.status = FINALIZED

\* Mutant of NormalizeStatus: the value is compared as sent.
NormalizeExact(st) == IF st \in {SUCCESS, SUCCESSED} THEN COMPLETED ELSE st

\* Step 3: upper-case, then SUCCESS / SUCCESSED become COMPLETED.
NormalizeStatus(st) ==
    LET incoming == Upper(st) IN
    IF incoming \in {SUCCESS, SUCCESSED} THEN COMPLETED ELSE incoming

\* Mutant of Allowed: every value of STATUSES is accepted.
AllowedStatuses(incoming) == incoming \in STATUSES

\* Mutant of Allowed: the check is missing.
AllowedAny(incoming) == TRUE

\* "incoming in allowed"
Allowed(incoming) == incoming \in {COMPLETED, FAILED, TIMEOUT}

\* update_doc (internal.py 84-91)
UpdateDoc(payload, incoming, t) ==
    [status |-> incoming, score |-> payload.score,
     fail_tags |-> payload.fail_tags, feedback |-> payload.feedback,
     metrics |-> payload.metrics, updated_at |-> t]

\* f"invalid status: {incoming}"
InvalidStatus(incoming) == <<"invalid status: ", incoming>>

\* post_result_callback, steps 0-4: token, find_one, the FINALIZED
\* short-circuit, normalisation and validation, update_doc.
post_result_callback(c, id, payload, token) ==
    /\ rec[c].pc \in {"idle", "done"}
    /\ LET doc == find_one(id)
           incoming == NormalizeStatus(payload.status) IN
       rec' = [rec EXCEPT ![c] =
                IF InvalidToken(token)
                THEN Done(id, HTTPException(401, "invalid result token"))
                ELSE IF doc = NoDoc
                THEN Done(id, HTTPException(404, "submission not found"))
                ELSE IF AlreadyFinalized(doc)
                THEN Done(id, OkOut(id, GetStatus(doc, FINALIZED)))
                ELSE IF ~Allowed(incoming)
                THEN Done(id, HTTPException(400, InvalidStatus(incoming)))
                ELSE [pc |-> "update", submission_id |-> id, payload |-> payload,
                      incoming |-> incoming,
                      update_doc |-> UpdateDoc(payload, incoming, now)]]
    /\ UNCHANGED <<sched, jobs, worker, sent, db, nextId, now, store, queue, intake, fin>>

\* Step 5: the conditional write, and the return when it matched.
post_result_update(c) ==
    /\ rec[c].pc = "update"
    /\ LET id == rec[c].submission_id IN
       IF MatchesNotFinalized(id)
       THEN /\ db' = [db EXCEPT ![id] = SetFields(db[id], rec[c].update_doc)]
            /\ rec' = [rec EXCEPT ![c] = Done(id, OkOut(id, rec[c].incoming))]
       ELSE /\ db' = db
            /\ rec' = [rec EXCEPT ![c] =
                        [pc |-> "reread", submission_id |-> id,
                         incoming |-> rec[c].incoming]]
    /\ UNCHANGED <<sched, jobs, worker, sent, nextId, now, store, queue, intake, fin>>

\* matched_count == 0: read again and return the current status.
post_result_reread(c) ==
    /\ rec[c].pc = "reread"
    /\ LET id == rec[c].submission_id
           doc == find_one(id) IN
       rec' = [rec EXCEPT ![c] = Done(id, OkOut(id, GetStatus(doc, rec[c].incoming)))]
    /\ UNCHANGED <<sched, jobs, worker, sent, db, nextId, now, store, queue, intake, fin>>

\* ---------------------------------------------------------------- Worker
\* max_retries of send_result_to_backend
max_retries == 2

\* The outcomes main and timeout_handler synthesize.
RedisError == [status |-> FAILED, score |-> Number(0), fail_tags |-> <<"redis_error">>]

DataError == [status |-> FAILED, score |-> Number(0), fail_tags |-> <<"data_error">>]

LlmError == [status |-> FAILED, score |-> Number(0), fail_tags |-> <<"llm_error">>]

SystemError == [status |-> FAILED, score |-> Number(0), fail_tags |-> <<"system_error">>]

TimeoutResult == [status |-> TIMEOUT, score |-> Number(0), fail_tags |-> <<"timeout">>]

\* What call_llm may do: return a dict that has the four fields (call_llm
\* checks their presence, not their types or values), or raise.
LlmOutcomes ==
    { [raised |-> FALSE,
       data |-> [status |-> COMPLETED, score |-> Number(90), fail_tags |-> <<>>]],
      [raised |-> FALSE,
       data |-> [status |-> FAILED, score |-> Number(40),
                 fail_tags |-> <<"logic_error">>]],
      [raised |-> FALSE,
       data |-> [status |-> COMPLETED,
                 score |-> [type |-> "string", value |-> "high"],
                 fail_tags |-> <<>>]],
      [raised |-> FALSE,
       data |-> [status |-> <<"P","A","S","S">>, score |-> Number(70),
                 fail_tags |-> <<>>]],
      [raised |-> TRUE] }

\* What requests.post may do: a 2xx response, another response, or a
\* RequestException.
PostOutcomes == {"ok", "http_error", "exception"}

\* float(result["score"]) succeeds on a number.
IsNumber(v) == v.type = "number"

\* payload of send_result_to_backend (metrics left out).
Payload(result) ==
    [status |-> result.status, score |-> result.score.value,
     fail_tags |-> result.fail_tags]

\* The Kubernetes Job of the cluster starts its pod: main checks
\* SUBMISSION_ID and arms the alarm. One Worker run is followed.
run_job(k) ==
    /\ worker.pc = "none"
    /\ k \in 1..Len(jobs)
    /\ jobs[k].created
    /\ worker' = NewRun(jobs[k].submission_id)
    /\ UNCHANGED <<db, nextId, now, store, queue, intake, fin, rec, sched, jobs, sent>>

\* main enters send_result_to_backend at one of its call sites.
BeginSend(w, site, result) ==
    [w EXCEPT !.pc = "send", !.site = site, !.result = result,
              !.attempt = 0, !.phase = "post", !.resp = "none"]

\* An exception is raised at main's position: the except clause that
\* encloses the position takes it, or it leaves main.
\*   load, llm: in the try blocks of steps 1 and 3 (except Exception);
\*   prompt: between them, in the outer try only;
\*   send, sent: in or after a send_result_to_backend call; the call of the
\*     top-level clause has its own try, the others are in the outer try
\*     (step 4 re-raises);
\*   top, top_failed: in the top-level except clause, outside its inner try;
\*   finally: at signal.alarm(0), whose except clause names OSError, the
\*     base of TimeoutError.
Raise(w) ==
    CASE w.pc = "load" -> BeginSend(w, "redis_error", RedisError)
      [] w.pc = "llm" -> BeginSend(w, "llm_error", LlmError)
      [] w.pc = "prompt" -> [w EXCEPT !.pc = "top"]
      [] w.pc \in {"send", "sent"} /\ w.site = "top" -> [w EXCEPT !.pc = "top_failed"]
      [] w.pc \in {"send", "sent"} /\ w.site # "top" -> [w EXCEPT !.pc = "top"]
      [] w.pc \in {"top", "top_failed"} -> [w EXCEPT !.pc = "finally", !.exc = TRUE]
      [] w.pc = "finally" -> w

\* send_result_to_backend returns to main: the print that follows it.
Return(w) == [w EXCEPT !.pc = "sent"]

Running == worker.pc \notin {"none", "returned", "raised"} /\ worker.hpc = "off"

\* submission.get("code", "")
CodeOf(data) == IF "code" \in DOMAIN data THEN data.code ELSE <<>>

\* main, step 1: load_submission_from_redis (HGETALL answers or Redis fails;
\* an empty answer raises RuntimeError) and the "if not code" branch.
load_submission_from_redis(ok) ==
    /\ Running /\ worker.pc = "load"
    /\ LET data == store[worker.submission_id] IN
       worker' = IF ~ok THEN [Raise(worker) EXCEPT !.e = "RedisError"]
                 ELSE IF data = NoDoc
                 THEN [Raise(worker) EXCEPT !.e = "RuntimeError"]
                 ELSE IF Len(CodeOf(data)) = 0
                 THEN BeginSend(worker, "data_error", DataError)
                 ELSE [worker EXCEPT !.pc = "prompt"]
    /\ UNCHANGED <<db, nextId, now, store, queue, intake, fin, rec, sched, jobs, sent>>

\* main, step 2: build_prompt.
build_prompt ==
    /\ Running /\ worker.pc = "prompt"
    /\ worker' = [worker EXCEPT !.pc = "llm"]
    /\ UNCHANGED <<db, nextId, now, store, queue, intake, fin, rec, sched, jobs, sent>>

\* main, step 3: call_llm.
call_llm(outcome) ==
    /\ Running /\ worker.pc = "llm"
    /\ worker' = IF outcome.raised THEN Raise(worker)
                 ELSE BeginSend(worker, "normal", outcome.data)
    /\ UNCHANGED <<db, nextId, now, store, queue, intake, fin, rec, sched, jobs, sent>>

\* Mutant of AfterPost: the loop goes on after every failure.
AfterPostRetry(outcome, attempt) ==
    IF outcome = "ok" THEN "returned" ELSE "sleep"

\* One attempt of a send_result_to_backend call: the state of the call
\* after requests.post answered: "returned", "sleep" before the next attempt,
\* or "raised" after the last one.
AfterPost(outcome, attempt) ==
    IF outcome = "ok" THEN "returned"
    ELSE IF attempt < max_retries - 1 THEN "sleep"
    ELSE "raised"

\* send_result_to_backend called from main, up to requests.post: the payload
\* is built (float raises on a score that is no number) and the request
\* goes out.
send_result_to_backend ==
    /\ Running /\ worker.pc = "send" /\ worker.phase = "post"
    /\ IF ~IsNumber(worker.result.score)
       THEN /\ worker' = Raise(worker)
            /\ sent' = sent
       ELSE /\ sent' = Append(sent, Payload(worker.result))
            /\ worker' = [worker EXCEPT !.phase = "wait", !.req = Len(sent) + 1]
    /\ UNCHANGED <<db, nextId, now, store, queue, intake, fin, rec, sched, jobs>>

\* requests.post answers or raises: the rest of the loop body.
post_response(outcome) ==
    /\ Running /\ worker.pc = "send" /\ worker.phase = "wait"
    /\ LET w == [worker EXCEPT !.resp = outcome] IN
       worker' =
         CASE AfterPost(outcome, worker.attempt) = "returned" -> Return(w)
           [] AfterPost(outcome, worker.attempt) = "sleep" ->
                [w EXCEPT !.phase = "sleep"]
           [] OTHER -> Raise(w)
    /\ UNCHANGED <<db, nextId, now, store, queue, intake, fin, rec, sched, jobs, sent>>

\* time.sleep(wait_time) between two attempts.
sleep_before_retry ==
    /\ Running /\ worker.pc = "send" /\ worker.phase = "sleep"
    /\ worker' = [worker EXCEPT !.phase = "post", !.attempt = @ + 1]
    /\ UNCHANGED <<db, nextId, now, store, queue, intake, fin, rec, sched, jobs, sent>>

\* error_result of the top-level except clause.
ErrorResult(w) == IF w.timeout_occurred THEN TimeoutResult ELSE SystemError

\* After a send_result_to_backend call that returned: main logs and returns,
\* or comes to the end of its block.
main_return ==
    /\ Running /\ worker.pc = "sent"
    /\ worker' = [worker EXCEPT !.pc = "finally"]
    /\ UNCHANGED <<db, nextId, now, store, queue, intake, fin, rec, sched, jobs, sent>>

\* Mutant of TopLevel: the top-level handler logs and delivers nothing.
TopLevelSilent(w) == [w EXCEPT !.pc = "finally"]

\* The top-level except clause up to its send_result_to_backend call.
TopLevel(w) == BeginSend(w, "top", ErrorResult(w))

main_except ==
    /\ Running /\ worker.pc = "top"
    /\ worker' = TopLevel(worker)
    /\ UNCHANGED <<db, nextId, now, store, queue, intake, fin, rec, sched, jobs, sent>>

\* The top-level except clause after its own delivery failed: it logs.
main_except_log ==
    /\ Running /\ worker.pc = "top_failed"
    /\ worker' = [worker EXCEPT !.pc = "finally"]
    /\ UNCHANGED <<db, nextId, now, store, queue, intake, fin, rec, sched, jobs, sent>>

\* The finally clause: signal.alarm(0), then main returns or the exception
\* that is leaving main goes on.
main_finally ==
    /\ Running /\ worker.pc = "finally"
    /\ worker' = [worker EXCEPT !.alarm = "off",
                                !.pc = IF worker.exc THEN "raised" ELSE "returned"]
    /\ UNCHANGED <<db, nextId, now, store, queue, intake, fin, rec, sched, jobs, sent>>

\* SIGALRM arrives while main runs: timeout_handler starts, on top of
\* whatever statement main is at, and main waits for it.
timeout_handler ==
    /\ Running /\ worker.alarm = "armed"
    /\ worker' = [worker EXCEPT !.alarm = "fired", !.timeout_occurred = TRUE,
                                !.hpc = "post", !.hattempt = 0, !.hresp = "none"]
    /\ UNCHANGED <<db, nextId, now, store, queue, intake, fin, rec, sched, jobs, sent>>

\* send_result_to_backend called from timeout_handler, up to requests.post:
\* the request with the TIMEOUT outcome goes out.
timeout_handler_send ==
    /\ worker.hpc = "post"
    /\ sent' = Append(sent, Payload(TimeoutResult))
    /\ worker' = [worker EXCEPT !.hpc = "wait", !.hreq = Len(sent) + 1]
    /\ UNCHANGED <<db, nextId, now, store, queue, intake, fin, rec, sched, jobs>>

\* requests.post answers or raises in timeout_handler's call. When the call
\* has returned or raised (the handler catches that), the handler raises
\* TimeoutError at main's position.
timeout_handler_response(outcome) ==
    /\ worker.hpc = "wait"
    /\ LET w == [worker EXCEPT !.hresp = outcome] IN
       worker' =
         IF AfterPost(outcome, worker.hattempt) = "sleep"
         THEN [w EXCEPT !.hpc = "sleep"]
         ELSE Raise([w EXCEPT !.hpc = "off"])
    /\ UNCHANGED <<db, nextId, now, store, queue, intake, fin, rec, sched, jobs, sent>>

timeout_handler_sleep ==
    /\ worker.hpc = "sleep"
    /\ worker' = [worker EXCEPT !.hpc = "post", !.hattempt = @ + 1]
    /\ UNCHANGED <<db, nextId, now, store, queue, intake, fin, rec, sched, jobs, sent>>

\* ---------------------------------------------------------------- system
\* The three backend handlers over the record store: Intake may write the
\* records of subs, callers name the ids of subs (before or after Intake wrote
\* them), finalize coroutines F and callback coroutines R may be in flight,
\* and callers send notes N, reports P and token headers T.
Backend(subs, F, R, N, P, T) ==
    \/ \E payload \in CreateInputs : nextId \in subs /\ create_submission(payload)
    \/ \E c \in F, id \in subs, note \in N : finalize_submission(c, id, note)
    \/ \E c \in F : finalize_query(c)
    \/ \E c \in F : finalize_update(c)
    \/ \E c \in F : finalize_reread(c)
    \/ \E c \in R, id \in subs, payload \in P, token \in T :
          post_result_callback(c, id, payload, token)
    \/ \E c \in R : post_result_update(c)
    \/ \E c \in R : post_result_reread(c)

\* Reports with a recognised status, one per outcome a Worker produces.
WorkerReports == {p \in ResultInputs : Len(p.fail_tags) = 1 \/ p.score = 95}

\* Finalizer races: every submission, every finalize coroutine, and one
\* Worker reporting with the right token.
Next == Backend(Ids, FinCalls, {1}, Notes, WorkerReports, {RESULT_TOKEN})

Spec == Init /\ [][Next]_vars

\* Reconciler races: every callback coroutine with every report and token,
\* the wall clock, and the finalize coroutines, on the first submission.
NextReconcile ==
    \/ Tick
    \/ Backend({1}, FinCalls, RecCalls, {None}, ResultInputs, Tokens)

SpecReconcile == Init /\ [][NextReconcile]_vars

\* Reports spelling a recognised status, or a synonym of success, in mixed
\* letter case.
CaseReports ==
    {Report(st, 95, <<>>, <<>>, 7) :
        st \in CaseVariants(SUCCESS) \cup NearCaseVariants(SUCCESSED)}
    \cup
    {Report(st, 50, <<"style">>, <<>>, 7) :
        st \in NearCaseVariants(COMPLETED) \cup NearCaseVariants(FAILED)
                \cup NearCaseVariants(TIMEOUT)}

\* Letter case: one Worker reporting every spelling, and the finalize
\* coroutines, on the first submission.
NextCase == Backend({1}, FinCalls, {1}, {None}, CaseReports, {RESULT_TOKEN})

SpecCase == Init /\ [][NextCase]_vars

\* Dispatch: Intake with every request body, failing or succeeding Redis
\* writes, and the Scheduler instances with an accepting or rejecting cluster.
NextDispatch ==
    \/ \E body \in CreateBodies : post_submission(body)
    \/ \E id \in Ids, ok \in BOOLEAN : _save_submission_to_redis(id, ok)
    \/ \E id \in Ids, ok \in BOOLEAN : _enqueue_to_queue(id, ok)
    \/ \E s \in Scheds : pop_queue(s)
    \/ \E s \in Scheds, ok \in BOOLEAN : create_runner_job(s, ok)

SpecDispatch == Init /\ [][NextDispatch]_vars

\* Dispatch with other producers on the list: Intake with one valid body.
NextForeign ==
    \/ post_submission([language |-> PYTHON, code |-> <<"x","=","1">>])
    \/ \E id \in Ids, ok \in BOOLEAN : _save_submission_to_redis(id, ok)
    \/ \E id \in Ids, ok \in BOOLEAN : _enqueue_to_queue(id, ok)
    \/ \E s \in Scheds : pop_queue(s)
    \/ \E s \in Scheds, ok \in BOOLEAN : create_runner_job(s, ok)
    \/ \E raw \in ForeignMessages : foreign_push(raw)

SpecForeign == Init /\ [][NextForeign]_vars

\* What SubmissionCreate yields: code may be the empty string.
Payloads == [language : {PYTHON}, code : {<<>>, <<"x","=","1">>}]

\* The cluster has created the Job of submission 1: Intake wrote the record
\* and the payload and enqueued the message, a Scheduler instance popped it
\* and the cluster accepted the Job. The Payload Store holds the payload, or
\* has lost it since (Redis keeps the hash in memory).
InitWorker ==
    \E payload \in Payloads :
        /\ db = [i \in Ids |-> IF i = 1 THEN NewDoc(payload, 0) ELSE NoDoc]
        /\ nextId = 2
        /\ now = 0
        /\ store \in {[i \in Ids |-> IF i = 1 THEN m ELSE NoDoc] :
                          m \in {mapping(1, payload), NoDoc}}
        /\ queue = <<>>
        /\ intake = [i \in Ids |-> IF i = 1 THEN [pc |-> "done"] ELSE IdleCall]
        /\ fin = [c \in FinCalls |-> IdleCall]
        /\ rec = [c \in RecCalls \cup Posts |-> IdleCall]
        /\ sched = [s \in Scheds |-> Popping]
        /\ jobs = <<[submission_id |-> 1, name |-> JobName(1), created |-> TRUE]>>
        /\ worker = NoRun
        /\ sent = <<>>

\* One Worker run with every behaviour of the Payload Store, the evaluator
\* and the backend, and the alarm going off at any statement.
NextWorker ==
    \/ \E k \in 1..Len(jobs) : run_job(k)
    \/ \E ok \in BOOLEAN : load_submission_from_redis(ok)
    \/ build_prompt
    \/ \E outcome \in LlmOutcomes : call_llm(outcome)
    \/ send_result_to_backend
    \/ \E outcome \in PostOutcomes : post_response(outcome)
    \/ sleep_before_retry
    \/ main_return
    \/ main_except
    \/ main_except_log
    \/ main_finally
    \/ timeout_handler
    \/ timeout_handler_send
    \/ \E outcome \in PostOutcomes : timeout_handler_response(outcome)
    \/ timeout_handler_sleep

SpecWorker == InitWorker /\ [][NextWorker]_vars

\* The request body the Reconciler gets from a request of the Worker.
ReportOf(p) == Report(p.status, p.score, p.fail_tags, <<>>, 0)

\* Request k of the Worker has been answered by the Reconciler, and what
\* requests.post makes of the answer (resp.ok).
Answered(k) == k \in Posts /\ rec[k].pc = "done"

Answer(k) == IF rec[k].result.code = 200 THEN "ok" ELSE "http_error"

\* The Reconciler receives request c of the Worker.
receive_result(c) ==
    /\ c <= Len(sent)
    /\ rec[c].pc = "idle"
    /\ post_result_callback(c, worker.submission_id, ReportOf(sent[c]),
                            RESULT_TOKEN)

\* The steps the Worker process takes by itself, with a backend that
\* answers: every statement of main and of timeout_handler; requests.post
\* returns when the Reconciler has answered the request.
WorkerStep ==
    \/ \E ok \in BOOLEAN : load_submission_from_redis(ok)
    \/ build_prompt
    \/ \E outcome \in LlmOutcomes : call_llm(outcome)
    \/ Len(sent) < MaxPosts /\ send_result_to_backend
    \/ Answered(worker.req) /\ post_response(Answer(worker.req))
    \/ sleep_before_retry
    \/ main_return
    \/ main_except
    \/ main_except_log
    \/ main_finally
    \/ Len(sent) < MaxPosts /\ timeout_handler_send
    \/ Answered(worker.hreq) /\ timeout_handler_response(Answer(worker.hreq))
    \/ timeout_handler_sleep

\* The whole pipeline for the first submission: Intake, other producers of
\* texts that do not parse, the Scheduler instances, the cluster, the Worker
\* run of the Job and the Reconciler. Request k of the Worker is handled by
\* callback coroutine k; requests.post returns the handler's answer, or
\* raises (connection error, or no answer within its timeout); the alarm
\* goes off at any statement.
NextPipeline ==
    \/ \E code \in {<<>>, <<"x","=","1">>} :
          nextId = 1 /\ post_submission([language |-> PYTHON, code |-> code])
    \/ \E ok \in BOOLEAN : _save_submission_to_redis(1, ok)
    \/ \E ok \in BOOLEAN : _enqueue_to_queue(1, ok)
    \/ foreign_push([json |-> "invalid"])
    \/ \E s \in Scheds : pop_queue(s)
    \/ \E s \in Scheds, ok \in BOOLEAN : create_runner_job(s, ok)
    \/ \E k \in 1..Len(jobs) : run_job(k)
    \/ WorkerStep
    \/ timeout_handler
    \/ post_response("exception")
    \/ timeout_handler_response("exception")
    \/ \E c \in Posts : receive_result(c)
    \/ \E c \in Posts : post_result_update(c)

SpecPipeline == Init /\ [][NextPipeline]_vars

\* The pipeline with every process running for ever: each Scheduler instance
\* makes the pop and the create_runner_job it can make, the cluster starts
\* the pod of a Job it holds, the Worker process takes its next step, and
\* the Reconciler handles every request it received. Producers, the alarm
\* and connection errors are under no obligation.
SpecPipelineFair ==
    /\ SpecPipeline
    /\ \A s \in Scheds :
          /\ WF_vars(pop_queue(s))
          /\ WF_vars(\E ok \in BOOLEAN : create_runner_job(s, ok))
    /\ WF_vars(\E k \in 1..Len(jobs) : run_job(k))
    /\ WF_vars(WorkerStep)
    /\ \A c \in Posts :
          /\ WF_vars(receive_result(c))
          /\ WF_vars(post_result_update(c))

\* Every Scheduler instance runs its loop for ever: a pop that can be made
\* and a create_runner_job that was reached are made.
SpecDispatchFair ==
    /\ SpecDispatch
    /\ \A s \in Scheds :
          /\ WF_vars(pop_queue(s))
          /\ WF_vars(\E ok \in BOOLEAN : create_runner_job(s, ok))

\* ================================================================ claims
Exists(i) == db[i] # NoDoc

\* Ids of other finalized submissions of the owner of submission i.
OthersFinalized(i) ==
    {j \in Ids \ {i} : Exists(j) /\ db[j].user_id = db[i].user_id /\ db[j].finalized}

\* C1: in every reachable state at most one submission per owner has
\* finalized = TRUE.
C1_OneFinalizedPerOwner ==
    \A i, j \in Ids :
        (/\ Exists(i) /\ Exists(j)
         /\ db[i].user_id = db[j].user_id
         /\ db[i].finalized /\ db[j].finalized) => i = j

\* C2: of two finalize calls for two different submissions of one owner,
\* whatever the interleaving of their steps, exactly one has returned 200 and
\* the other 409.
C2_ExactlyOneSucceeds ==
    \A c, d \in FinCalls :
        (/\ c # d
         /\ fin[c].pc = "done" /\ fin[d].pc = "done"
         /\ fin[c].submission_id # fin[d].submission_id
         /\ fin[c].result.code # 404 /\ fin[d].result.code # 404
         /\ db[fin[c].submission_id].user_id = db[fin[d].submission_id].user_id)
        => {fin[c].result.code, fin[d].result.code} = {200, 409}

\* C3 as stated: a status changes only from QUEUED to COMPLETED / FAILED /
\* TIMEOUT, by a Reconciler write, or from a non-FINALIZED status to
\* FINALIZED, by a Finalizer write.
ReconcilerWrote(i) ==
    \E c \in RecCalls :
        /\ rec[c].pc = "update" /\ rec[c].submission_id = i
        /\ rec'[c].pc = "done"

FinalizerWrote(i) ==
    \E c \in FinCalls :
        /\ fin[c].pc = "update" /\ fin[c].submission_id = i
        /\ fin'[c].pc = "done"

Reported == {COMPLETED, FAILED, TIMEOUT}

C4_FinalizedIsNoOp ==
    [][\A c \in RecCalls, id \in Ids, payload \in ResultInputs :
        (/\ Exists(id) /\ db[id].finalized
         /\ rec'[c] # rec[c]
         /\ post_result_callback(c, id, payload, RESULT_TOKEN))
        => /\ rec'[c] = Done(id, OkOut(id, FINALIZED))
           /\ db' = db]_vars

\* C4 witness: a callback has answered 200 / FINALIZED on a finalized record
\* that no report was ever written to.
C4_Witness ==
    \E c \in RecCalls :
        /\ rec[c] = Done(1, OkOut(1, FINALIZED))
        /\ Exists(1) /\ db[1].finalized
        /\ "updated_at" \notin DOMAIN db[1]

C6_FinalizeIdempotent ==
    /\ [][\A c \in FinCalls, id \in Ids, note \in Notes :
            (/\ Exists(id) /\ db[id].finalized
             /\ fin'[c] # fin[c]
             /\ finalize_submission(c, id, note))
            => /\ fin'[c] = Done(id, FinalizeOut(id))
               /\ db' = db]_vars
    /\ [](\A c \in FinCalls :
            (/\ fin[c].pc = "done"
             /\ Exists(fin[c].submission_id)
             /\ OthersFinalized(fin[c].submission_id) = {}
             /\ fin[c].result.code # 404)
            => /\ fin[c].result = FinalizeOut(fin[c].submission_id)
               /\ db[fin[c].submission_id].finalized
               /\ db[fin[c].submission_id].status = FINALIZED)

\* C6 witness: one call has finalized the submission and the other call on
\* the same id has lost the conditional write and is about to re-read.
C6_Witness ==
    \E c, d \in FinCalls :
        /\ fin[c].pc = "reread"
        /\ fin[d] = Done(fin[c].submission_id, FinalizeOut(fin[c].submission_id))
        /\ OthersFinalized(fin[c].submission_id) = {}

\* Does st spell the upper-case word w in some letter case?
Spells(st, w) ==
    /\ Len(st) = Len(w)
    /\ \A i \in 1..Len(w) : st[i] = w[i] \/ st[i] = LowerChar(w[i])

\* The canonical status a spelling stands for: the recognised word it spells
\* in some letter case, COMPLETED for a spelling of SUCCESS or SUCCESSED.
Canonical(st) ==
    IF Spells(st, SUCCESS) \/ Spells(st, SUCCESSED) \/ Spells(st, COMPLETED)
    THEN COMPLETED
    ELSE IF Spells(st, FAILED) THEN FAILED
    ELSE IF Spells(st, TIMEOUT) THEN TIMEOUT
    ELSE <<>>

\* C7: a callback on a non-finalized submission whose status spells SUCCESS,
\* SUCCESSED, COMPLETED, FAILED or TIMEOUT in any letter case carries the
\* canonical status to its write, and the write stores and returns it.
C7_NormalizedStatus ==
    /\ [](\A c \in RecCalls :
            rec[c].pc = "update" =>
                /\ Canonical(rec[c].payload.status) \in Reported
                /\ rec[c].incoming = Canonical(rec[c].payload.status)
                /\ rec[c].update_doc.status = rec[c].incoming)
    /\ [][\A c \in RecCalls, id \in Ids, payload \in CaseReports :
            (/\ Exists(id) /\ ~db[id].finalized
             /\ rec'[c] # rec[c]
             /\ post_result_callback(c, id, payload, RESULT_TOKEN))
            => /\ rec'[c].pc = "update"
               /\ rec'[c].payload = payload]_vars
    /\ [][\A c \in RecCalls :
            (/\ rec[c].pc = "update" /\ rec'[c] # rec[c]
             /\ ~db[rec[c].submission_id].finalized)
            => /\ db'[rec[c].submission_id].status = rec[c].incoming
               /\ rec'[c] = Done(rec[c].submission_id,
                                 OkOut(rec[c].submission_id, rec[c].incoming))]_vars

\* C7 witness: a report spelling success in lower case was stored and
\* answered as COMPLETED.
C7_Witness ==
    \E c \in RecCalls :
        /\ rec[c] = Done(1, OkOut(1, COMPLETED))
        /\ db[1].status = COMPLETED
        /\ db[1].score = 95

\* The reports of ResultInputs whose status spells no recognised value.
UnrecognisedReports == {p \in ResultInputs : Canonical(p.status) = <<>>}

\* C8 as stated: a callback with the valid token on an existing submission,
\* finalized or not, whose status is not recognised answers 400 and writes
\* nothing.
C8_RejectedInAnyState ==
    [][\A c \in RecCalls, id \in Ids, payload \in UnrecognisedReports :
        (/\ Exists(id)
         /\ rec'[c] # rec[c]
         /\ post_result_callback(c, id, payload, RESULT_TOKEN))
        => /\ rec'[c] = Done(id, HTTPException(400,
                                InvalidStatus(Upper(payload.status))))
           /\ db' = db]_vars

\* C8 (amended): such a callback answers 400 when the submission is not
\* finalized and 200 with status FINALIZED when it is; it writes nothing in
\* either case.
C8_RejectedUnlessFinalized ==
    [][\A c \in RecCalls, id \in Ids, payload \in UnrecognisedReports :
        (/\ Exists(id)
         /\ rec'[c] # rec[c]
         /\ post_result_callback(c, id, payload, RESULT_TOKEN))
        => /\ rec'[c] = IF db[id].finalized
                        THEN Done(id, OkOut(id, FINALIZED))
                        ELSE Done(id, HTTPException(400,
                                    InvalidStatus(Upper(payload.status))))
           /\ db' = db]_vars

\* C8 witness: a callback was rejected with 400 on a record that is not
\* finalized and was never written to.
C8_Witness ==
    \E c \in RecCalls :
        /\ rec[c] = Done(1, HTTPException(400, InvalidStatus(QUEUED)))
        /\ Exists(1) /\ ~db[1].finalized
        /\ db[1].status = QUEUED

\* C9: while another submission of the owner is finalized and this one is
\* not, a finalize call on this one goes on to the query and is answered
\* 409 finalized_submission_exists_for_user there; neither step changes a
\* record.
C9_SecondFinalizeRejected ==
    /\ [][\A c \in FinCalls, id \in Ids, note \in Notes :
            (/\ Exists(id) /\ ~db[id].finalized /\ OthersFinalized(id) # {}
             /\ fin'[c] # fin[c]
             /\ finalize_submission(c, id, note))
            => /\ fin'[c].pc = "query"
               /\ fin'[c].submission_id = id
               /\ db' = db]_vars
    /\ [][\A c \in FinCalls :
            (/\ fin[c].pc = "query" /\ fin'[c] # fin[c]
             /\ ~db[fin[c].submission_id].finalized
             /\ OthersFinalized(fin[c].submission_id) # {})
            => /\ fin'[c] = Done(fin[c].submission_id,
                    HTTPException(409, "finalized_submission_exists_for_user"))
               /\ db' = db]_vars

\* C9 witness: a finalize call was answered 409 and its submission is still
\* not finalized, while another one of the owner is.
C9_Witness ==
    \E c \in FinCalls :
        /\ fin[c].pc = "done"
        /\ fin[c].result = HTTPException(409, "finalized_submission_exists_for_user")
        /\ ~db[fin[c].submission_id].finalized
        /\ db[fin[c].submission_id].status # FINALIZED
        /\ OthersFinalized(fin[c].submission_id) # {}

\* C10: every stored status is QUEUED, COMPLETED, FAILED, TIMEOUT or
\* FINALIZED.
C10_StatusEnumerated ==
    \A i \in Ids :
        Exists(i) => db[i].status \in {QUEUED, COMPLETED, FAILED, TIMEOUT, FINALIZED}

\* C10 witness: one callback was rejected for its status and another one's
\* report was stored.
C10_Witness ==
    \E c, d \in RecCalls :
        /\ rec[c] = Done(1, HTTPException(400, InvalidStatus(FINALIZED)))
        /\ rec[d] = Done(1, OkOut(1, TIMEOUT))
        /\ db[1].status = TIMEOUT

\* The fields of a record a report carries, but for metrics and the time.
ReportFields == {"status", "score", "fail_tags", "feedback"}

\* C11: a Reconciler write to a non-finalized record that already holds the
\* same status, score, fail-tags and feedback (the report was applied before)
\* leaves every field but updated_at as it was and adds no field: the
\* feedback entries are not duplicated.
C11_SameReportTwice ==
    [][\A c \in RecCalls :
        (/\ rec[c].pc = "update" /\ rec'[c] # rec[c]
         /\ ~db[rec[c].submission_id].finalized
         /\ \A k \in ReportFields :
               db[rec[c].submission_id][k] = rec[c].update_doc[k]
         /\ db[rec[c].submission_id].metrics = rec[c].update_doc.metrics)
        => LET id == rec[c].submission_id IN
           /\ DOMAIN db'[id] = DOMAIN db[id]
           /\ \A k \in DOMAIN db[id] \ {"updated_at"} : db'[id][k] = db[id][k]
           /\ rec'[c] = Done(id, OkOut(id, db[id].status))]_vars

\* C11 witness: two callbacks have stored the report with one feedback entry,
\* the second one a tick later, and the record holds that entry once.
C11_Witness ==
    \E c, d \in RecCalls :
        /\ c # d
        /\ rec[c] = Done(1, OkOut(1, FAILED))
        /\ rec[d] = Done(1, OkOut(1, FAILED))
        /\ db[1].status = FAILED
        /\ db[1].feedback = <<[case |-> "llm_error", message |-> "boom"]>>
        /\ db[1].updated_at = MaxClock

\* C12: when a Scheduler pops, it receives the message that was enqueued
\* first among those in the queue (LPUSH leaves the oldest at the tail).
C12_Fifo ==
    [][\A s \in Scheds :
        (sched[s].pc = "pop" /\ sched'[s] # sched[s])
        => sched'[s].submission_id = queue[Len(queue)].data.submission_id]_vars

\* Is a field of the body empty: language or code sent as the empty string,
\* or code not sent?
EmptyField(body) ==
    \/ "language" \in DOMAIN body /\ body.language = <<>>
    \/ "code" \notin DOMAIN body
    \/ "code" \in DOMAIN body /\ body.code = <<>>

\* C13: a request whose language or code is empty is answered with a client
\* error, and writes no record, stores no payload and enqueues nothing.
C13_EmptyRejected ==
    [][\A body \in CreateBodies :
        (EmptyField(body) /\ nextId \in Ids /\ post_submission(body))
        => /\ intake'[nextId] = Unprocessable
           /\ db' = db /\ store' = store /\ queue' = queue]_vars

\* C14: a callback whose token header is missing or differs from
\* RESULT_TOKEN is answered 401 and changes no record, for every id (with or
\* without a record, finalized or not) and every report.
C14_BadTokenRejected ==
    [][\A c \in RecCalls :
        (rec[c].pc \in {"idle", "done"} /\ rec'[c] # rec[c]) =>
            \A token \in Tokens \ {RESULT_TOKEN}, payload \in ResultInputs :
                LET id == rec'[c].submission_id IN
                post_result_callback(c, id, payload, token)
                => /\ rec'[c] = Done(id, HTTPException(401, "invalid result token"))
                   /\ db' = db]_vars

\* C14 witness: a callback was answered 401 for an id that has no record,
\* and another one for a finalized record.
C14_Witness ==
    \/ \E c \in RecCalls :
         /\ rec[c] = Done(1, HTTPException(401, "invalid result token"))
         /\ ~Exists(1)
         /\ \E d \in RecCalls :
              rec[d] = Done(1, HTTPException(404, "submission not found"))

\* C15: all requests one Worker run has posted carry the same status and the
\* same fail-tags.
C15_OneOutcome ==
    \A i, j \in 1..Len(sent) :
        /\ sent[i].status = sent[j].status
        /\ sent[i].fail_tags = sent[j].fail_tags

\* C16: once the deadline has fired, every request the run posts is the
\* TIMEOUT outcome tagged timeout: no COMPLETED and no FAILED outcome follows.
C16_TimeoutLast ==
    [][(worker.timeout_occurred /\ sent' # sent)
        => sent'[Len(sent')] = Payload(TimeoutResult)]_vars

\* C17: a Worker run that has left main, by return or by exception, has
\* posted at least one request.
C17_AtLeastOneDelivery ==
    worker.pc \in {"returned", "raised"} => Len(sent) >= 1

\* C17 witness: main has returned after the evaluator's outcome could not be
\* put into a payload; the only request posted is the top-level fallback.
C17_Witness ==
    /\ worker.pc = "returned"
    /\ ~worker.timeout_occurred
    /\ sent = <<Payload(SystemError)>>

\* Intake has enqueued the dispatch message of submission id.
Enqueued(id) == intake[id].pc = "done"

\* How many messages for id the queue holds, how many Scheduler instances
\* have popped one and not yet called create_runner_job, and how many
\* admission attempts were made for id.
InQueue(id) ==
    Cardinality({k \in 1..Len(queue) :
        /\ ParseMessage(queue[k]) # NoDoc
        /\ queue[k].data.submission_id = id})

Held(id) ==
    Cardinality({s \in Scheds :
        sched[s].pc = "create" /\ sched[s].submission_id = id})

Attempts(id) ==
    Cardinality({k \in 1..Len(jobs) : jobs[k].submission_id = id})

C19_RaceReturnsFinalized ==
    /\ [][\A c \in RecCalls :
            (/\ rec[c].pc = "update" /\ rec'[c] # rec[c]
             /\ db[rec[c].submission_id].finalized)
            => /\ db' = db
               /\ rec'[c].pc = "reread"
               /\ rec'[c].submission_id = rec[c].submission_id]_vars
    /\ [](\A c \in RecCalls :
            rec[c].pc = "reread" =>
                /\ db[rec[c].submission_id].finalized
                /\ db[rec[c].submission_id].status = FINALIZED
                /\ rec[c].incoming \in Reported)
    /\ [][\A c \in RecCalls :
            (rec[c].pc = "reread" /\ rec'[c] # rec[c])
            => /\ rec'[c] = Done(rec[c].submission_id,
                                 OkOut(rec[c].submission_id, FINALIZED))
               /\ db' = db]_vars

\* C19 witness: a callback read the record before any report or finalize,
\* a finalize landed, and the callback's write has just matched nothing.
C19_Witness ==
    \E c \in RecCalls :
        /\ rec[c].pc = "reread"
        /\ db[rec[c].submission_id].finalized
        /\ "updated_at" \notin DOMAIN db[rec[c].submission_id]

\* C20: no exception leaves main.
C20_NeverRaises == worker.pc # "raised"

\* A step in which main's send_result_to_backend call gets the answer of
\* requests.post, and one in which timeout_handler's call does.
MainAnswered ==
    /\ worker.pc = "send" /\ worker.phase = "wait"
    /\ worker.hpc = "off" /\ worker'.hpc = "off"
    /\ worker' # worker

HandlerAnswered == worker.hpc = "wait" /\ worker' # worker

Failed(resp) == resp \in {"http_error", "exception"}

\* C21: one send_result_to_backend call posts at most max_retries = 2 times
\* (a request goes out at loop index 0 or 1 only, and the index rises by one,
\* without a request, in the sleep between two attempts only); after an
\* answer 2xx the call returns; after a failed first attempt the call sleeps;
\* and the call raises its delivery failure exactly after a failed last
\* attempt. The same counts hold for the call timeout_handler makes.
C21_TwoAttempts ==
    /\ [][sent' # sent =>
            IF worker.hpc = "off"
            THEN worker.phase = "post" /\ worker.attempt < max_retries
            ELSE worker.hpc = "post" /\ worker.hattempt < max_retries]_vars
    /\ [][(worker'.attempt # worker.attempt /\ worker'.attempt # 0) =>
            /\ worker.phase = "sleep" /\ worker.resp # "ok"
            /\ worker'.attempt = worker.attempt + 1
            /\ sent' = sent]_vars
    /\ [][(worker'.hattempt # worker.hattempt /\ worker'.hattempt # 0) =>
            /\ worker.hpc = "sleep" /\ worker.hresp # "ok"
            /\ worker'.hattempt = worker.hattempt + 1
            /\ sent' = sent]_vars
    /\ [][MainAnswered =>
            /\ worker'.resp = "ok" <=> worker'.pc = "sent"
            /\ (Failed(worker'.resp) /\ worker.attempt = 0)
                 <=> (worker'.pc = "send" /\ worker'.phase = "sleep")
            /\ (Failed(worker'.resp) /\ worker.attempt = max_retries - 1)
                 <=> worker'.pc \in {"top", "top_failed"}]_vars
    /\ [][HandlerAnswered =>
            /\ worker'.hresp = "ok" => worker'.hpc = "off"
            /\ (Failed(worker'.hresp) /\ worker.hattempt = 0)
                 <=> worker'.hpc = "sleep"]_vars

\* C21 witness: a call posted twice, the second time after its sleep, both
\* attempts failed, and the failure reached the top-level except clause.
C21_Witness ==
    /\ worker.pc = "top" /\ worker.site = "normal"
    /\ worker.attempt = max_retries - 1
    /\ Failed(worker.resp)
    /\ Len(sent) = max_retries
    /\ ~worker.timeout_occurred

\* The hash of the Worker's submission is missing, or its code is empty.
AbsentOrEmpty ==
    LET data == store[worker.submission_id] IN
    data = NoDoc \/ Len(CodeOf(data)) = 0

\* C22: when the payload of the Worker's submission is absent, or present
\* with empty code, and Redis answers the read, step 1 goes on to deliver the
\* FAILED outcome tagged data_error; and such a run never reaches the
\* evaluator.
C22_DataError ==
    /\ [][(/\ worker.pc = "load" /\ worker' # worker
            /\ worker.hpc = "off" /\ worker'.hpc = "off"
            /\ AbsentOrEmpty
            /\ worker'.e # "RedisError")
           => worker' = BeginSend(worker, "data_error", DataError)]_vars
    /\ []((worker.pc # "none" /\ AbsentOrEmpty)
            => /\ worker.pc \notin {"prompt", "llm"}
               /\ worker.site \notin {"normal", "llm_error"})

\* A text that is no dispatch message: it does not parse, or what it parses
\* to has no submission_id.
Malformed(raw) ==
    raw.json # "object" \/ "submission_id" \notin DOMAIN raw.data

\* A Scheduler instance takes the head of the list.
Popped == queue # <<>> /\ Len(queue') = Len(queue) - 1

\* C23: the pop of a malformed text, whatever it holds, only removes it from
\* the list: nothing is pushed back, no admission is attempted, and the
\* instance that popped it is at the top of its loop again.
C23_MalformedDropped ==
    [][(Popped /\ Malformed(Head(queue)))
        => /\ queue' = Tail(queue)
           /\ jobs' = jobs
           /\ sched' = sched]_vars

\* The cluster has rejected an admission for id.
Rejected(id) ==
    \E k \in 1..Len(jobs) : jobs[k].submission_id = id /\ ~jobs[k].created

\* C24: a create_runner_job call the cluster rejects leaves the list and the
\* records as they are and puts the instance that made it at the top of its
\* loop; no second attempt is made for the message; and the record of a
\* submission whose admission was rejected has status QUEUED, whatever the
\* rest of the pipeline does.
C24_RejectionDropped ==
    /\ [][(Len(jobs') = Len(jobs) + 1 /\ ~jobs'[Len(jobs')].created)
            => /\ queue' = queue
               /\ db' = db
               /\ \E s \in Scheds :
                    /\ sched[s].pc = "create"
                    /\ sched[s].submission_id = jobs'[Len(jobs')].submission_id
                    /\ sched' = [sched EXCEPT ![s] = Popping]]_vars
    /\ [](\A id \in Ids :
            Rejected(id) => /\ Attempts(id) = 1
                            /\ InQueue(id) + Held(id) = 0
                            /\ db[id].status = QUEUED)

\* C24 witness: the one admission attempt of submission 1 was rejected, every
\* instance is at the top of its loop, the record is QUEUED, and the next
\* text waits on the list.
C24_Witness ==
    /\ jobs = <<[submission_id |-> 1, name |-> JobName(1), created |-> FALSE]>>
    /\ queue = <<[json |-> "invalid"]>>
    /\ \A s \in Scheds : sched[s] = Popping
    /\ db[1].status = QUEUED

\* C25: a payload write that fails ends the handler before the enqueue, an
\* enqueue that fails ends it too, and the handler that ended so does nothing
\* more; the record of such a submission is there with status QUEUED, no
\* message for it is on the list or with a Scheduler instance, no admission
\* is attempted for it, and no Worker runs.
C25_IntakeFailure ==
    /\ [][\A id \in Ids :
            /\ (intake[id].pc = "save" /\ intake'[id] # intake[id]
                 /\ store'[id] = NoDoc)
               => intake'[id].pc = "error" /\ queue' = queue
            /\ (intake[id].pc = "enqueue" /\ intake'[id] # intake[id]
                 /\ queue' = queue)
               => intake'[id].pc = "error"
            /\ intake[id].pc = "error" => intake'[id] = intake[id]]_vars
    /\ [](\A id \in Ids :
            intake[id].pc = "error"
            => /\ db[id] # NoDoc
               /\ db[id].status = QUEUED
               /\ InQueue(id) + Held(id) + Attempts(id) = 0
               /\ worker.pc = "none")

\* C25 witness: the payload was written, the enqueue failed, the record is
\* QUEUED, and the list holds a text of another producer only.
C25_Witness ==
    /\ intake[1].pc = "error"
    /\ store[1] # NoDoc
    /\ db[1].status = QUEUED
    /\ queue = <<[json |-> "invalid"]>>

\* C28: while a message of Intake for a submission is on the list, is held
\* by a Scheduler instance or has been handed to the cluster, the record of
\* the submission and its payload are stored; and the push of a message is
\* made by a handler that has written both.
C28_WritesBeforeEnqueue ==
    /\ [](\A id \in Ids :
            InQueue(id) + Held(id) + Attempts(id) > 0
            => db[id] # NoDoc /\ store[id] # NoDoc)
    /\ [][\A id \in Ids :
            (intake[id].pc = "enqueue" /\ intake'[id].pc = "done")
            => /\ db[id] # NoDoc /\ store[id] # NoDoc
               /\ InQueue(id) = 0
               /\ queue' = lpush(queue, json_dumps(
                              [submission_id |-> id,
                               language |-> db[id].language]))]_vars

\* C28 witness: the message of the second submission is on the list and
\* that of the first is with a Scheduler instance, after the payload write
\* of neither failed.
C28_Witness ==
    /\ InQueue(2) = 1 /\ Held(1) = 1
    /\ \A id \in Ids : db[id] # NoDoc /\ store[id] # NoDoc

\* C26: every stored record has finalized = true exactly when its status is
\* FINALIZED.
C26_FinalizedIffStatus ==
    \A i \in Ids :
        Exists(i) => (db[i].finalized = TRUE <=> db[i].status = FINALIZED)

\* C26 witness: a report was written, a finalize landed after another
\* callback had read the record, and that callback's write matched nothing.
C26_Witness ==
    /\ Exists(1)
    /\ db[1].finalized = TRUE /\ db[1].status = FINALIZED
    /\ "updated_at" \in DOMAIN db[1]
    /\ \E c \in RecCalls : rec[c].pc = "reread"

\* The Jobs the cluster has created for id.
Admitted(id) ==
    {k \in 1..Len(jobs) : jobs[k].submission_id = id /\ jobs[k].created}

\* C27: however many messages name a submission and whichever instances
\* process them, the cluster holds at most one Job for it: every admission
\* attempt for the id asks for the same Job name, and no two Jobs of the
\* cluster have the same name; an instance whose attempt is rejected goes
\* back to the top of its loop.
C27_DuplicateTolerated ==
    /\ [](\A id \in Ids : Cardinality(Admitted(id)) <= 1)
    /\ [](\A k, l \in 1..Len(jobs) :
            /\ jobs[k].submission_id = jobs[l].submission_id
                 => jobs[k].name = jobs[l].name
            /\ (k # l /\ jobs[k].created /\ jobs[l].created)
                 => jobs[k].name # jobs[l].name)
    /\ [][\A s \in Scheds :
            (/\ sched[s].pc = "create" /\ sched'[s] # sched[s]
             /\ Admitted(sched[s].submission_id) # {})
            => /\ sched'[s] = Popping
               /\ \A k \in 1..Len(jobs') :
                    (jobs'[k].submission_id = sched[s].submission_id
                     /\ jobs'[k].created) => k \in 1..Len(jobs)]_vars

\* C27 witness: two messages naming submission 1 were processed; the first
\* attempt created the Job, the second was rejected, and every instance is
\* at the top of its loop.
C27_Witness ==
    /\ Len(jobs) = 2
    /\ jobs[1].submission_id = 1 /\ jobs[1].created
    /\ jobs[2].submission_id = 1 /\ ~jobs[2].created
    /\ \A s \in Scheds : sched[s] = Popping

\* C30: a finalize call whose conditional write matched no record finds the
\* record finalized when it reads again and answers 200; no finalize call
\* answers 409 finalize_conflict.
C30_NoFinalizeConflict ==
    /\ [](\A c \in FinCalls :
            /\ fin[c].pc = "reread"
                 => /\ Exists(fin[c].submission_id)
                    /\ db[fin[c].submission_id].finalized = TRUE
            /\ fin[c].pc = "done"
                 => fin[c].result # HTTPException(409, "finalize_conflict"))
    /\ [][\A c \in FinCalls :
            (fin[c].pc = "reread" /\ fin'[c] # fin[c])
            => /\ fin'[c] = Done(fin[c].submission_id,
                                 FinalizeOut(fin[c].submission_id))
               /\ db' = db]_vars

\* C30 witness: two finalize calls for one submission both passed the query;
\* one wrote and answered, the write of the other has just matched nothing
\* and it is about to read again.
C30_Witness ==
    \E c, d \in FinCalls :
        /\ c # d
        /\ fin[d].pc = "reread"
        /\ fin[c] = Done(fin[d].submission_id, FinalizeOut(fin[d].submission_id))
        /\ db[fin[d].submission_id].finalized = TRUE

\* One of the conditions of C29 has failed: the cluster rejected the
\* admission, a Scheduler process ended, or a request of the Worker got no
\* answer.
Excused(id) ==
    \/ Rejected(id)
    \/ \E s \in Scheds : sched[s] = Exited
    \/ worker.resp = "exception" \/ worker.hresp = "exception"

\* C29: once Intake has enqueued the message of a submission, the status of
\* its record eventually is no longer QUEUED, unless the cluster rejects the
\* admission, a Scheduler process ends or a request to the Reconciler gets
\* no answer.
C29_LeavesQueued ==
    \A id \in {1} :
        Enqueued(id) ~> ((Exists(id) /\ db[id].status # QUEUED) \/ Excused(id))

====
